---- MODULE Spec2Model ----
(***************************************************************************)
(* Model of fireflyframework_genai_data.middleware.lineage                 *)
(* (DataLineageMiddleware): the lineage log, the per-invocation context    *)
(* metadata, the monotonic clock and uuid4 it reads, and a reader that     *)
(* holds and edits lists returned by the `records` property.               *)
(*                                                                         *)
(* Python values are modelled as follows.                                  *)
(*   - None is the empty tuple <<>>; a present value v read through        *)
(*     dict.get / dict.pop is the one-element tuple <<v>>.                 *)
(*   - A dict is a function whose DOMAIN is its key set.                   *)
(*   - A list is an object of the heap `lists`, holding references into    *)
(*     `dicts` (the record dicts), so that aliasing and copying differ.    *)
(*   - A result value is named by its Python literal ("None", "0", ...).   *)
(*   - A float x / 1_000_000 is the exact fraction [num |-> x, den |-> ..].*)
(***************************************************************************)
EXTENDS Integers, Sequences, FiniteSets, TLC

\* ------------------------------------------------------------------ bounds
NumContexts == 2
MaxCalls == 4
MaxClock == 2
MaxReaderOps == 3
MaxReadCalls == 2
MaxConcCalls == 3
MaxConcReads == 2
MaxConcReadCalls == 2
MaxPairs == 2
MaxExecs == 3
MaxRules == 2
MaxQExecs == 2
MaxJobExecs == 2
MaxClientOps == 5

\* ------------------------------------------------------- program constants
NS_PER_MS == 1000000

\* ------------------------------------------------------------ value domains
Contexts == 1..NumContexts
AgentOf(c) == <<"agent-0", "agent-1", "agent-2", "agent-3">>[c]
MethodOf(c) == IF c = 1 THEN "run" ELSE "run_stream"
Results == {"None", "0", "'x'"}
Falsy == {"None", "0", "''", "False", "{}"}
Tokens == 1..MaxCalls
ClockValues == 0..MaxClock
None == <<>>
Some(v) == <<v>>
LOG == 0
Slots == {1, 2}
NoList == -1
READER_REC == 0

VARIABLES
    agent_name,     \* context.agent_name, per context
    method,         \* context.method, per context
    metadata,       \* context.metadata, per context: a dict
    clock,          \* the last reading of time.monotonic_ns()
    issued,         \* the tokens uuid.uuid4() has returned so far
    dicts,          \* the record dicts after_run has built, by reference
    lists,          \* the list objects: lists[LOG] is self._records
    held,           \* the list a reader holds in each of its variables
    readerOps,      \* the number of reads and edits the reader has made
    rop,            \* the reader's latest operation and the variable it used
    ncalls,         \* the number of before_run and after_run calls completed
    completed,      \* the contexts of the completed after_run calls, in order
    last,           \* the latest after_run call: its result argument and
                    \* the value it returned
    pc,             \* per context: the line an after_run call in progress
                    \* on it has reached ("idle": none in progress)
    frame,          \* the local variables of the after_run calls in progress
    objs,           \* the dict objects of a pipeline step: objs[INPUTS] is
                    \* the caller's inputs, objs[PARAMS] the step's parameters
    pmeta,          \* PipelineContext.metadata, shared by the pipeline's steps
    enrichCall,     \* the arguments of the latest client.enrich call
    estep,          \* the latest EnrichmentStep.execute: arguments and outcome
    eok,            \* the (type, strategy) of the execute calls whose
                    \* client.enrich call succeeded, in call order
    nexec,          \* the number of execute calls made
    qstep,          \* the latest QualityGateStep.execute: rules, arguments and
                    \* outcome
    nqexec,         \* the number of QualityGateStep.execute calls made
    qhist,          \* per QualityGateStep.execute call, in call order: its
                    \* outcome, its number of rules and its violations
    jstep,          \* the latest DataJobTool._execute: kwargs and outcome
    jcalls,         \* the client methods called by the tool, in call order
    njexec,         \* the number of DataJobTool._execute calls made
    client,         \* DataStarterClient._client: NoClient or an httpx client
    opened,         \* the httpx clients created and not yet closed
    created,        \* the number of httpx clients created so far
    tpc,            \* per task, where its call on the DataStarterClient is
    tclient,        \* per task, the httpx client its call works on
    sent,           \* the httpx client the latest request was sent on, and
                    \* whether that client was open when the request began
    nclientops      \* the number of calls made on the DataStarterClient

vars == <<agent_name, method, metadata, clock, issued, dicts, lists, held,
          readerOps, rop,
          ncalls, completed, last, pc, frame,
          objs, pmeta, enrichCall, estep, eok, nexec, qstep, nqexec, qhist,
          jstep, jcalls, njexec,
          client, opened, created, tpc, tclient, sent, nclientops>>
concVars == <<pc, frame>>
lineageVars == <<agent_name, method, metadata, clock, issued, dicts, lists, held,
                 readerOps, rop, ncalls, completed, last, pc, frame>>
enrichVars == <<objs, pmeta, enrichCall, estep, eok, nexec>>
enrichOnlyVars == <<enrichCall, estep, eok, nexec>>
qualityVars == <<qstep, nqexec, qhist>>
jobVars == <<jstep, jcalls, njexec>>
clientVars == <<client, opened, created, tpc, tclient, sent, nclientops>>
stepVars == <<enrichVars, qualityVars, jobVars, clientVars>>

\* ------------------------------------------------------------ dict helpers
\* m[k] = v
\* (faulty variant: m = {k: v}, which drops the other keys)
DictSetOnly(m, k, v) == [x \in {k} |-> v]
DictSet(m, k, v) == [x \in (DOMAIN m) \cup {k} |-> IF x = k THEN v ELSE m[x]]
DictGet(m, k) == IF k \in DOMAIN m THEN Some(m[k]) ELSE None
\* m.pop(k, None): the value returned, and the dict left behind
\* (faulty variant: m.get(k), which leaves the key in place)
DictPopValue(m, k) == IF k \in DOMAIN m THEN Some(m[k]) ELSE None
DictPeek(m, k) == m
\* (faulty variant: m.clear() after the read)
DictClear(m, k) == [x \in {} |-> m[x]]
DictPop(m, k) == [x \in (DOMAIN m) \ {k} |-> m[x]]
\* what the caller put into context.metadata before the middleware ran
CallerMetadata == [x \in {"trace"} |-> "t"]

\* Python truthiness of an optional int: None and 0 are falsy.
Truthy(opt) == opt # None /\ opt[1] # 0

\* ------------------------------------------------------ lineage.py helpers
\* uuid.uuid4().hex: a token not returned before.  Tokens are opaque, so
\* the least unused one stands for any of them.
\* (faulty variant: a generator that may return a token again)
Uuid4Repeat(used) == {t \in Tokens : t <= Cardinality(used)} \cup {1}
Uuid4(used) == {t \in Tokens : t = Cardinality(used) + 1}

\* (time.monotonic_ns() - start_ns) / 1_000_000, as an exact fraction
\* (faulty variant: the operands of the subtraction exchanged)
ElapsedMsReversed(now, start_ns) == [num |-> start_ns - now, den |-> NS_PER_MS]
ElapsedMs(now, start_ns) == [num |-> now - start_ns, den |-> NS_PER_MS]

\* (...) / 1_000_000 if start_ns else None
\* (faulty variant: a missing start timestamp taken to be 0)
ElapsedDefaultZero(start_ns, now) ==
    Some(ElapsedMs(now, IF start_ns = None THEN 0 ELSE start_ns[1]))
Elapsed(start_ns, now) ==
    IF Truthy(start_ns) THEN Some(ElapsedMs(now, start_ns[1])) ELSE None

\* result is not None
\* (faulty variant: bool(result))
HasResultTruthy(result) == result \notin Falsy
HasResult(result) == result # "None"

\* the record dict of after_run
Record(lineage_id, agent, meth, elapsed_ms, result) ==
    [lineage_id |-> lineage_id, agent_name |-> agent, method |-> meth,
     elapsed_ms |-> elapsed_ms, has_result |-> HasResult(result)]

\* self._records.append(record)
\* (faulty variants: the record inserted at the front; the record added twice)
AppendRecordFront(log, ref) == <<ref>> \o log
AppendRecordTwice(log, ref) == log \o <<ref, ref>>
AppendRecord(log, ref) == Append(log, ref)

\* return result
\* (faulty variant: no return statement)
ReturnNone(result) == "None"
ReturnValue(result) == result

\* list(self._records): a new list object `obj` with the log's elements
\* (faulty variant: return self._records)
SnapshotAlias(heap, obj) == [obj |-> LOG, heap |-> heap]
Snapshot(heap, obj) == [obj |-> obj, heap |-> [heap EXCEPT ![obj] = heap[LOG]]]

\* the record a reference denotes; READER_REC is a dict of the reader's own
ReaderRecord == [lineage_id |-> None, agent_name |-> "reader", method |-> "none",
                 elapsed_ms |-> None, has_result |-> FALSE]
Deref(ref) == IF ref = READER_REC THEN ReaderRecord ELSE dicts[ref]
View(list) == [i \in 1..Len(list) |-> Deref(list[i])]
\* the content of self._records
Log == View(lists[LOG])

\* ------------------------------------------------- pipeline step values
\* {} ; the dict objects of a step; the inputs a caller may pass
EmptyDict == [x \in {} |-> ""]
INPUTS == 1
PARAMS == 2
InputDicts ==
    {[k \in K |-> IF k = "country" THEN "US" ELSE "t1"] :
        K \in SUBSET {"country", "tenant_id"}}
\* EnrichmentStep(client, enrichment_type, strategy="ENHANCE")
EnrichmentTypes == {"ADDRESS", "EMAIL"}
Strategies == {"ENHANCE", "MERGE"}
\* context.correlation_id
CorrelationId == "corr-abc-123"
\* what client.enrich returns
EnrichResponse == "response"
NoEnrichCall == [type |-> "", strategy |-> "", parameters |-> EmptyDict, tenant_id |-> None]
NoEnrichStep == [inputs |-> EmptyDict, type |-> "", strategy |-> "",
                 enrich_ok |-> TRUE, outcome |-> "none", ret |-> ""]
\* a rule as given to QualityGateStep(rules): a callable, with a description
\* when given as a (callable, description) tuple; the callable's outcome on
\* the inputs: a returned value or a raised exception
RuleOutcomes == {"True", "False", "None", "raise"}
FalsyOutcomes == {"False", "None"}
\* rules = [check_0, (check_1, "has_country"), check_2, ...]: the second rule
\* comes with a description, the others are bare callables
GivenDescription(i) == IF i = 2 THEN Some("has_country") ELSE None
GivenRules ==
    UNION {{[i \in 1..n |-> [description |-> GivenDescription(i), outcome |-> o[i]]] :
               o \in [1..n -> RuleOutcomes]} : n \in 0..MaxRules}
\* the inputs given to a quality gate
QualityInputs == {EmptyDict, [k \in {"country"} |-> "US"]}
\* str(exc) of the exception a rule raises
ExcText == "boom"
NoObject == 0
NoQualityStep == [rules |-> <<>>, inputs |-> EmptyDict, outcome |-> "none",
                  message |-> [count |-> 0, violations |-> <<>>],
                  evaluated |-> <<>>, ret |-> NoObject]
\* the keyword arguments a DataJobTool is executed with: action is required,
\* job_type, execution_id and parameters are optional
Actions == {"start", "check", "collect", "cancel"}
JobParameters == [k \in {"region"} |-> "eu"]
JobKwargs ==
    {[k \in {"action"} \cup K |->
         CASE k = "action" -> a
           [] k = "job_type" -> jt
           [] k = "execution_id" -> ex
           [] OTHER -> JobParameters] :
        a \in Actions, jt \in {"", "etl"}, ex \in {"", "exec-123"},
        K \in SUBSET {"job_type", "execution_id", "parameters"}}
\* what the client's methods return
JobResult(client_method) ==
    CASE client_method = "start_job" -> "STARTED"
      [] client_method = "check_job" -> "RUNNING"
      [] OTHER -> "records"
NoJobStep == [kwargs |-> [k \in {"action"} |-> ""], outcome |-> "none", ret |-> ""]
\* self._client = None; the asyncio tasks that call the DataStarterClient
NoClient == 0
Tasks == {1, 2}

\* the local variables of after_run before the call has set them
NoFrame == [ref |-> 0, result |-> "None"]

\* ------------------------------------------------------------------- Init
Init ==
    /\ agent_name = [c \in Contexts |-> AgentOf(c)]
    /\ method = [c \in Contexts |-> MethodOf(c)]
    /\ metadata = [c \in Contexts |-> CallerMetadata]
    /\ clock \in {0}
    /\ issued = {}
    /\ dicts = <<>>
    /\ lists = [o \in {LOG} \cup Slots |-> <<>>]
    /\ held = [s \in Slots |-> NoList]
    /\ readerOps = 0
    /\ rop = [op |-> "none", slot |-> 0]
    /\ ncalls = 0
    /\ completed = <<>>
    /\ last = [result |-> "None", ret |-> "None"]
    /\ pc = [c \in Contexts |-> "idle"]
    /\ frame = [c \in Contexts |-> NoFrame]
    /\ objs = [o \in {INPUTS, PARAMS} |-> EmptyDict]
    /\ pmeta = EmptyDict
    /\ enrichCall = NoEnrichCall
    /\ estep = NoEnrichStep
    /\ eok = <<>>
    /\ nexec = 0
    /\ qstep = NoQualityStep
    /\ nqexec = 0
    /\ qhist = <<>>
    /\ jstep = NoJobStep
    /\ jcalls = <<>>
    /\ njexec = 0
    /\ client = NoClient
    /\ opened = {}
    /\ created = 0
    /\ tpc = [t \in Tasks |-> "idle"]
    /\ tclient = [t \in Tasks |-> NoClient]
    /\ sent = [on |-> NoClient, open |-> FALSE]
    /\ nclientops = 0

\* ---------------------------------------------------------------- actions
\* DataLineageMiddleware.before_run(context)
BeforeRun(c) ==
    /\ \E lineage_id \in Uuid4(issued), now \in clock..MaxClock :
        /\ metadata' = [metadata EXCEPT ![c] =
               DictSet(DictSet(DictSet(@, "lineage_id", lineage_id),
                       "lineage_agent", agent_name[c]),
                       "lineage_start_ns", now)]
        /\ clock' = now
        /\ issued' = issued \cup {lineage_id}
    /\ ncalls' = ncalls + 1
    /\ UNCHANGED <<agent_name, method, dicts, lists, held, readerOps, rop,
                   completed, last>>

\* DataLineageMiddleware.after_run(context, result)
AfterRun(c, result) ==
    /\ LET start_ns == DictPopValue(metadata[c], "lineage_start_ns")
           popped == DictPop(metadata[c], "lineage_start_ns")
           ref == Len(dicts) + 1
       IN  \* time.monotonic_ns() is read only when start_ns is truthy
           \E now \in (IF Truthy(start_ns) THEN clock..MaxClock ELSE {clock}) :
               /\ metadata' = [metadata EXCEPT ![c] = popped]
               /\ clock' = now
               /\ dicts' = Append(dicts,
                      Record(DictGet(popped, "lineage_id"), agent_name[c], method[c],
                             Elapsed(start_ns, now), result))
               /\ lists' = [lists EXCEPT ![LOG] = AppendRecord(@, ref)]
    /\ ncalls' = ncalls + 1
    /\ completed' = Append(completed, c)
    /\ last' = [result |-> result, ret |-> ReturnValue(result)]
    /\ UNCHANGED <<agent_name, method, issued, held, readerOps, rop>>

\* records_x = middleware.records: the property read into the reader's
\* variable s
ReadRecords(s) ==
    /\ LET snap == Snapshot(lists, s)
       IN  /\ lists' = snap.heap
           /\ held' = [held EXCEPT ![s] = snap.obj]
    /\ rop' = [op |-> "read", slot |-> s]
    /\ readerOps' = readerOps + 1
    /\ UNCHANGED <<agent_name, method, metadata, clock, issued, dicts, ncalls, completed, last>>

\* records_x.append(own_dict): the reader adds to a list it was returned
ReaderAppend(s) ==
    /\ held[s] # NoList
    /\ lists' = [lists EXCEPT ![held[s]] = Append(@, READER_REC)]
    /\ rop' = [op |-> "append", slot |-> s]
    /\ readerOps' = readerOps + 1
    /\ UNCHANGED <<agent_name, method, metadata, clock, issued, dicts, held,
                   ncalls, completed, last>>

\* records_x.pop(): the reader removes from a list it was returned
ReaderPop(s) ==
    /\ held[s] # NoList
    /\ Len(lists[held[s]]) > 0
    /\ lists' = [lists EXCEPT ![held[s]] = SubSeq(@, 1, Len(@) - 1)]
    /\ rop' = [op |-> "pop", slot |-> s]
    /\ readerOps' = readerOps + 1
    /\ UNCHANGED <<agent_name, method, metadata, clock, issued, dicts, held,
                   ncalls, completed, last>>

\* records_x.reverse(): the reader reorders a list it was returned
ReaderReverse(s) ==
    /\ held[s] # NoList
    /\ Len(lists[held[s]]) > 1
    /\ lists' = [lists EXCEPT ![held[s]] = [i \in 1..Len(@) |-> @[Len(@) + 1 - i]]]
    /\ rop' = [op |-> "reverse", slot |-> s]
    /\ readerOps' = readerOps + 1
    /\ UNCHANGED <<agent_name, method, metadata, clock, issued, dicts, held,
                   ncalls, completed, last>>

\* The middleware's hooks, called by the agent runtime in any order on any
\* context, at most MaxCalls times.
Next ==
    \/ \E c \in Contexts :
          ncalls < MaxCalls /\ BeforeRun(c) /\ UNCHANGED <<concVars, stepVars>>
    \/ \E c \in Contexts, result \in Results :
          ncalls < MaxCalls /\ AfterRun(c, result) /\ UNCHANGED <<concVars, stepVars>>

Spec == Init /\ [][Next]_vars

\* The middleware together with a reader of `records` that edits the lists
\* it is returned.
MiddlewareRead ==
    \/ \E c \in Contexts :
          ncalls < MaxReadCalls /\ BeforeRun(c) /\ UNCHANGED <<concVars, stepVars>>
    \/ \E c \in Contexts, result \in Results :
          ncalls < MaxReadCalls /\ AfterRun(c, result) /\ UNCHANGED <<concVars, stepVars>>

Reader ==
    \/ \E s \in Slots :
          readerOps < MaxReaderOps /\ ReadRecords(s) /\ UNCHANGED <<concVars, stepVars>>
    \/ \E s \in Slots :
          readerOps < MaxReaderOps /\ ReaderAppend(s) /\ UNCHANGED <<concVars, stepVars>>
    \/ \E s \in Slots :
          readerOps < MaxReaderOps /\ ReaderPop(s) /\ UNCHANGED <<concVars, stepVars>>
    \/ \E s \in Slots :
          readerOps < MaxReaderOps /\ ReaderReverse(s) /\ UNCHANGED <<concVars, stepVars>>

NextReader == MiddlewareRead \/ Reader

SpecReader == Init /\ [][NextReader]_vars

\* records_x[i]["agent_name"] = "reader": the reader assigns a field of a
\* record dict it obtained from a list it was returned
ReaderSetField(s, i) ==
    /\ held[s] # NoList
    /\ i \in 1..Len(lists[held[s]])
    /\ lists[held[s]][i] # READER_REC
    /\ dicts' = [dicts EXCEPT ![lists[held[s]][i]].agent_name = "reader"]
    /\ rop' = [op |-> "setfield", slot |-> s]
    /\ readerOps' = readerOps + 1
    /\ UNCHANGED <<agent_name, method, metadata, clock, issued, lists, held,
                   ncalls, completed, last>>

\* The reader of SpecReader, who also assigns fields of the records.
ReaderEdit ==
    \E s \in Slots, i \in 1..MaxReadCalls :
       readerOps < MaxReaderOps /\ ReaderSetField(s, i) /\ UNCHANGED <<concVars, stepVars>>

NextReaderEdit == MiddlewareRead \/ Reader \/ ReaderEdit

SpecReaderEdit == Init /\ [][NextReaderEdit]_vars

\* ------------------------------------------- after_run, statement by statement
\* Invocations may run in parallel (each on its own context): an after_run
\* call is then a sequence of steps interleaved with the steps of the calls
\* on other contexts: the statements up to the record (which touch only the
\* call's own context and locals), the append to the shared list, and the
\* return.  list.append and list() are atomic.

\* lines 55-66: result and record are local variables of the call, one set
\* per call
\* (faulty variant: the values kept in attributes of the middleware, one
\* set shared by all calls)
FrameShared(c) == 1
Frame(c) == c

\* lines 55-66: start_ns, elapsed_ms and record are computed from the call's
\* own context, its locals and one reading of the clock
AfterRunPrepare(c, result) ==
    /\ pc[c] = "idle"
    /\ LET start_ns == DictPopValue(metadata[c], "lineage_start_ns")
           popped == DictPop(metadata[c], "lineage_start_ns")
       IN  \E now \in (IF Truthy(start_ns) THEN clock..MaxClock ELSE {clock}) :
               /\ metadata' = [metadata EXCEPT ![c] = popped]
               /\ clock' = now
               /\ dicts' = Append(dicts,
                      Record(DictGet(popped, "lineage_id"), agent_name[c], method[c],
                             Elapsed(start_ns, now), result))
    /\ frame' = [frame EXCEPT ![Frame(c)] = [ref |-> Len(dicts) + 1, result |-> result]]
    /\ pc' = [pc EXCEPT ![c] = "built"]
    /\ UNCHANGED <<agent_name, method, issued, lists, held,
                   readerOps, rop, ncalls, completed, last>>

\* line 67: self._records.append(record)
AfterRunAppend(c) ==
    /\ pc[c] = "built"
    /\ lists' = [lists EXCEPT ![LOG] = AppendRecord(@, frame[Frame(c)].ref)]
    /\ pc' = [pc EXCEPT ![c] = "appended"]
    /\ UNCHANGED <<agent_name, method, metadata, clock, issued, dicts, held,
                   readerOps, rop, ncalls, completed, last, frame>>

\* line 69: return result
AfterRunReturn(c) ==
    /\ pc[c] = "appended"
    /\ last' = [result |-> frame[Frame(c)].result,
                ret |-> ReturnValue(frame[Frame(c)].result)]
    /\ completed' = Append(completed, c)
    /\ ncalls' = ncalls + 1
    /\ pc' = [pc EXCEPT ![c] = "idle"]
    /\ frame' = [frame EXCEPT ![Frame(c)] = NoFrame]
    /\ UNCHANGED <<agent_name, method, metadata, clock, issued, dicts, lists,
                   held, readerOps, rop>>

\* before_run on a context with no call in progress
BeforeRunIdle(c) ==
    /\ pc[c] = "idle"
    /\ BeforeRun(c)
    /\ UNCHANGED concVars

\* the calls completed and in progress
Started == ncalls + Cardinality({d \in Contexts : pc[d] # "idle"})

\* Calls on distinct contexts in parallel, at most MaxConcCalls of them.
NextConcurrent ==
    \/ \E c \in Contexts :
          Started < MaxConcCalls /\ BeforeRunIdle(c) /\ UNCHANGED stepVars
    \/ \E c \in Contexts, result \in Results :
          Started < MaxConcCalls /\ AfterRunPrepare(c, result) /\ UNCHANGED stepVars
    \/ \E c \in Contexts : AfterRunAppend(c) /\ UNCHANGED stepVars
    \/ \E c \in Contexts : AfterRunReturn(c) /\ UNCHANGED stepVars

SpecConcurrent == Init /\ [][NextConcurrent]_vars

\* records_a = middleware.records; records_b = middleware.records; ...:
\* `records` read while calls are in progress, into the reader's variables
\* in turn
ReadRecordsAnyTime(s) ==
    /\ readerOps < MaxConcReads
    /\ s = (readerOps % 2) + 1
    /\ ReadRecords(s)
    /\ UNCHANGED concVars

\* Calls in parallel, at most MaxConcReadCalls of them, and a reader.
NextConcurrentRead ==
    \/ \E c \in Contexts :
          Started < MaxConcReadCalls /\ BeforeRunIdle(c) /\ UNCHANGED stepVars
    \/ \E c \in Contexts, result \in Results :
          Started < MaxConcReadCalls /\ AfterRunPrepare(c, result) /\ UNCHANGED stepVars
    \/ \E c \in Contexts : AfterRunAppend(c) /\ UNCHANGED stepVars
    \/ \E c \in Contexts : AfterRunReturn(c) /\ UNCHANGED stepVars
    \/ \E s \in Slots : ReadRecordsAnyTime(s) /\ UNCHANGED stepVars

SpecConcurrentRead == Init /\ [][NextConcurrentRead]_vars

\* a before_run/after_run pair is under way on context c: before_run has
\* stored the start timestamp, or after_run has not yet returned
PairOpen(c) == "lineage_start_ns" \in DOMAIN metadata[c] \/ pc[c] # "idle"

\* the pairs completed and under way
PairsStarted == Len(completed) + Cardinality({c \in Contexts : PairOpen(c)})

\* the results the paired invocations end with
PairResults == {"None", "'x'"}

\* before_run opening a pair on a context that has none under way
BeforeRunPair(c) ==
    /\ PairsStarted < MaxPairs
    /\ ~PairOpen(c)
    /\ BeforeRun(c)
    /\ UNCHANGED concVars

\* after_run closing the pair its before_run opened
AfterRunPair(c, result) ==
    /\ "lineage_start_ns" \in DOMAIN metadata[c]
    /\ AfterRunPrepare(c, result)

\* before_run/after_run pairs on distinct contexts in parallel, at most
\* MaxPairs of them.
NextPairs ==
    \/ \E c \in Contexts : BeforeRunPair(c) /\ UNCHANGED stepVars
    \/ \E c \in Contexts, result \in PairResults :
          AfterRunPair(c, result) /\ UNCHANGED stepVars
    \/ \E c \in Contexts : AfterRunAppend(c) /\ UNCHANGED stepVars
    \/ \E c \in Contexts : AfterRunReturn(c) /\ UNCHANGED stepVars

SpecPairs == Init /\ [][NextPairs]_vars

\* ------------------------------------------------------- EnrichmentStep
\* dict(inputs): a new dict object `new` with the items of `src`
\* (faulty variant: parameters = inputs, the same object)
DictAlias(heap, src, new) == [obj |-> src, heap |-> heap]
DictCopy(heap, src, new) == [obj |-> new, heap |-> [heap EXCEPT ![new] = heap[src]]]

\* m.setdefault(k, []).append(v)
\* (faulty variant: m[k] = [v])
SetList(m, k, v) == DictSet(m, k, <<v>>)
SetDefaultAppend(m, k, v) ==
    DictSet(m, k, Append(IF k \in DOMAIN m THEN m[k] ELSE <<>>, v))

\* EnrichmentStep.execute(context, inputs) of a step built with
\* (enrichment_type, strategy); enrich_ok: client.enrich returns rather than
\* raises (response.raise_for_status())
EnrichExecute(inputs, enrichment_type, strategy, enrich_ok) ==
    LET called == [objs EXCEPT ![INPUTS] = inputs]
        copy == DictCopy(called, INPUTS, PARAMS)
        parameters == copy.obj
        tenant_id == DictPopValue(copy.heap[parameters], "tenant_id")
        heap == [copy.heap EXCEPT ![parameters] = DictPop(@, "tenant_id")]
    IN  /\ objs' = heap
        /\ enrichCall' = [type |-> enrichment_type, strategy |-> strategy,
                          parameters |-> heap[parameters], tenant_id |-> tenant_id]
        /\ IF enrich_ok
              THEN /\ pmeta' = SetDefaultAppend(pmeta, "enrichment_results",
                                    [type |-> enrichment_type, strategy |-> strategy,
                                     correlation_id |-> CorrelationId])
                   /\ eok' = Append(eok, [type |-> enrichment_type, strategy |-> strategy])
              ELSE UNCHANGED <<pmeta, eok>>
        /\ estep' = [inputs |-> inputs, type |-> enrichment_type, strategy |-> strategy,
                     enrich_ok |-> enrich_ok,
                     outcome |-> IF enrich_ok THEN "returned" ELSE "raised",
                     ret |-> IF enrich_ok THEN EnrichResponse ELSE ""]
        /\ nexec' = nexec + 1

NextEnrich ==
    \E inputs \in InputDicts, t \in EnrichmentTypes, st \in Strategies,
       enrich_ok \in BOOLEAN :
          /\ nexec < MaxExecs
          /\ EnrichExecute(inputs, t, st, enrich_ok)
          /\ UNCHANGED <<lineageVars, qualityVars, jobVars, clientVars>>

SpecEnrich == Init /\ [][NextEnrich]_vars

\* ------------------------------------------------------ QualityGateStep
\* f"rule_{idx}"
DefaultDescription(idx) == <<"rule_0", "rule_1", "rule_2", "rule_3">>[idx + 1]

\* __init__: self._rules, a (callable, description) pair per given rule
NormaliseRules(given) ==
    [i \in 1..Len(given) |->
        [description |-> IF given[i].description # None
                           THEN given[i].description[1]
                           ELSE DefaultDescription(i - 1),
         outcome |-> given[i].outcome]]

\* one pass of the loop body for the rule at position i
\* (faulty variant: the loop stops at the first violation)
CheckRuleFailFast(rule, i, acc) ==
    IF acc.violations # <<>> THEN acc
    ELSE [violations |->
              IF rule.outcome = "raise"
                THEN Append(acc.violations, <<rule.description, ExcText>>)
                ELSE IF rule.outcome \in FalsyOutcomes
                       THEN Append(acc.violations, <<rule.description>>)
                       ELSE acc.violations,
          evaluated |-> Append(acc.evaluated, i)]
CheckRule(rule, i, acc) ==
    [violations |->
         IF rule.outcome = "raise"
           THEN Append(acc.violations, <<rule.description, ExcText>>)
           ELSE IF rule.outcome \in FalsyOutcomes
                  THEN Append(acc.violations, <<rule.description>>)
                  ELSE acc.violations,
     evaluated |-> Append(acc.evaluated, i)]

\* for check, description in self._rules: ...
RECURSIVE RunRules(_, _, _)
RunRules(rules, i, acc) ==
    IF i > Len(rules) THEN acc
    ELSE RunRules(rules, i + 1, CheckRule(rules[i], i, acc))

\* f"Quality gate failed with {len(violations)} violation(s): " + "; ".join(violations)
QualityMessage(violations) == [count |-> Len(violations), violations |-> violations]

\* m.setdefault(k, []).extend(vs)
SetDefaultExtend(m, k, vs) == DictSet(m, k, (IF k \in DOMAIN m THEN m[k] ELSE <<>>) \o vs)

\* m.setdefault(k, 0); m[k] += n
\* (faulty variant: m[k] = n)
SetCount(m, k, n) == DictSet(m, k, n)
SetDefaultAdd(m, k, n) == DictSet(m, k, (IF k \in DOMAIN m THEN m[k] ELSE 0) + n)

\* return inputs
\* (faulty variant: return dict(inputs), another object)
QualityReturnCopy(inputs) == PARAMS
QualityReturn(inputs) == inputs

\* QualityGateStep(given).execute(context, inputs)
QualityExecute(given, inputs) ==
    LET rules == NormaliseRules(given)
        run == RunRules(rules, 1, [violations |-> <<>>, evaluated |-> <<>>])
        violations == run.violations
    IN  /\ objs' = [objs EXCEPT ![INPUTS] = inputs]
        /\ IF violations # <<>>
              THEN /\ pmeta' = SetDefaultExtend(pmeta, "quality_violations", violations)
                   /\ qstep' = [rules |-> rules, inputs |-> inputs,
                                outcome |-> "ValueError",
                                message |-> QualityMessage(violations),
                                evaluated |-> run.evaluated, ret |-> NoObject]
              ELSE /\ pmeta' = SetDefaultAdd(pmeta, "quality_checks_passed", Len(rules))
                   /\ qstep' = [rules |-> rules, inputs |-> inputs,
                                outcome |-> "returned",
                                message |-> [count |-> 0, violations |-> <<>>],
                                evaluated |-> run.evaluated,
                                ret |-> QualityReturn(INPUTS)]
        /\ qhist' = Append(qhist, [outcome |-> IF violations # <<>> THEN "ValueError"
                                                    ELSE "returned",
                                   nrules |-> Len(rules), violations |-> violations])
        /\ nqexec' = nqexec + 1

NextQuality ==
    \E given \in GivenRules, inputs \in QualityInputs :
       /\ nqexec < MaxQExecs
       /\ QualityExecute(given, inputs)
       /\ UNCHANGED <<lineageVars, enrichOnlyVars, jobVars, clientVars>>

SpecQuality == Init /\ [][NextQuality]_vars

\* ---------------------------------------------------------- DataJobTool
\* `not value` for value = kwargs.get(name): None or the empty string
\* (faulty variant: value is None)
IsNone(opt) == opt = None
Not(opt) == opt = None \/ opt[1] = ""

\* return await self._client.<client_method>(**args); client_ok: the method
\* returns rather than raises
CallClient(kwargs, client_method, args, client_ok) ==
    /\ jcalls' = Append(jcalls, [method |-> client_method, args |-> args])
    /\ jstep' = [kwargs |-> kwargs,
                 outcome |-> IF client_ok THEN "returned" ELSE "ClientError",
                 ret |-> IF client_ok THEN JobResult(client_method) ELSE ""]

\* raise ValueError(...)
RaiseValueError(kwargs) ==
    /\ jcalls' = jcalls
    /\ jstep' = [kwargs |-> kwargs, outcome |-> "ValueError", ret |-> ""]

\* DataJobTool._execute(**kwargs)
JobExecute(kwargs, client_ok) ==
    LET action == kwargs["action"]
        job_type == DictGet(kwargs, "job_type")
        parameters == IF "parameters" \in DOMAIN kwargs THEN kwargs["parameters"] ELSE EmptyDict
        execution_id == DictGet(kwargs, "execution_id")
    IN  /\ CASE action = "start" ->
                   IF Not(job_type) THEN RaiseValueError(kwargs)
                   ELSE CallClient(kwargs, "start_job",
                                   [job_type |-> job_type[1], parameters |-> parameters],
                                   client_ok)
              [] action = "check" ->
                   IF Not(execution_id) THEN RaiseValueError(kwargs)
                   ELSE CallClient(kwargs, "check_job",
                                   [execution_id |-> execution_id[1]], client_ok)
              [] action = "collect" ->
                   IF Not(execution_id) THEN RaiseValueError(kwargs)
                   ELSE CallClient(kwargs, "collect_results", [execution_id |-> execution_id[1]],
                                   client_ok)
              [] OTHER -> RaiseValueError(kwargs)
        /\ njexec' = njexec + 1

NextJob ==
    \E kwargs \in JobKwargs, client_ok \in BOOLEAN :
       /\ njexec < MaxJobExecs
       /\ JobExecute(kwargs, client_ok)
       /\ UNCHANGED <<lineageVars, enrichVars, qualityVars, clientVars>>

SpecJob == Init /\ [][NextJob]_vars

\* ---------------------------------------------------- DataStarterClient
\* The methods are coroutines: a call runs up to its await and is resumed
\* later, and calls of other tasks may run in between.

\* _ensure_client: the client held, a new httpx.AsyncClient when none is
\* (faulty variant: a new client per call)
EnsureClientAlways(current, n) == [client |-> n + 1, new |-> TRUE]
EnsureClient(current, n) ==
    IF current = NoClient THEN [client |-> n + 1, new |-> TRUE]
    ELSE [client |-> current, new |-> FALSE]

\* enrich, start_job, ...: client = self._ensure_client(), then
\* await client.post(...) / client.get(...)
RequestBegin(t) ==
    /\ tpc[t] = "idle"
    /\ LET ensured == EnsureClient(client, created)
       IN  /\ client' = ensured.client
           /\ created' = IF ensured.new THEN created + 1 ELSE created
           /\ opened' = IF ensured.new THEN opened \cup {ensured.client} ELSE opened
           /\ tclient' = [tclient EXCEPT ![t] = ensured.client]
           /\ sent' = [on |-> ensured.client, open |-> ensured.client \in opened']
    /\ tpc' = [tpc EXCEPT ![t] = "requesting"]
    /\ nclientops' = nclientops + 1

\* the awaited request completes: response.raise_for_status() and
\* return response.json(), or the error of either
RequestEnd(t) ==
    /\ tpc[t] = "requesting"
    /\ tpc' = [tpc EXCEPT ![t] = "idle"]
    /\ tclient' = [tclient EXCEPT ![t] = NoClient]
    /\ UNCHANGED <<client, opened, created, sent, nclientops>>

\* close(), up to the await: if self._client is not None:
\* await self._client.aclose(); with no client held the call is over
CloseBegin(t) ==
    /\ tpc[t] = "idle"
    /\ IF client # NoClient
          THEN /\ opened' = opened \ {client}
               /\ tclient' = [tclient EXCEPT ![t] = client]
               /\ tpc' = [tpc EXCEPT ![t] = "closing"]
          ELSE UNCHANGED <<opened, tclient, tpc>>
    /\ nclientops' = nclientops + 1
    /\ UNCHANGED <<client, created, sent>>

\* close(), after the await: self._client = None
CloseEnd(t) ==
    /\ tpc[t] = "closing"
    /\ client' = NoClient
    /\ tpc' = [tpc EXCEPT ![t] = "idle"]
    /\ tclient' = [tclient EXCEPT ![t] = NoClient]
    /\ UNCHANGED <<opened, created, sent, nclientops>>

ClientRest == UNCHANGED <<lineageVars, enrichVars, qualityVars, jobVars>>

\* Calls on one DataStarterClient from the tasks of an event loop, at most
\* MaxClientOps of them.
NextClient ==
    \/ \E t \in Tasks : nclientops < MaxClientOps /\ RequestBegin(t) /\ ClientRest
    \/ \E t \in Tasks : RequestEnd(t) /\ ClientRest
    \/ \E t \in Tasks : nclientops < MaxClientOps /\ CloseBegin(t) /\ ClientRest
    \/ \E t \in Tasks : CloseEnd(t) /\ ClientRest

SpecClient == Init /\ [][NextClient]_vars

\* The same calls made one after the other: a call begins only when no other
\* call is under way.
NoCallUnderWay == \A t \in Tasks : tpc[t] = "idle"

NextClientSequential ==
    \/ \E t \in Tasks :
          nclientops < MaxClientOps /\ NoCallUnderWay /\ RequestBegin(t) /\ ClientRest
    \/ \E t \in Tasks : RequestEnd(t) /\ ClientRest
    \/ \E t \in Tasks :
          nclientops < MaxClientOps /\ NoCallUnderWay /\ CloseBegin(t) /\ ClientRest
    \/ \E t \in Tasks : CloseEnd(t) /\ ClientRest

SpecClientSequential == Init /\ [][NextClientSequential]_vars

\* ------------------------------------------------------------- properties
\* the context of the latest completed after_run and the record at the end
\* of the log
LastCtx == completed[Len(completed)]
LastRecord == Log[Len(Log)]
HasStart(m) == "lineage_start_ns" \in DOMAIN m
SameId(r1, r2) == r1.lineage_id # None /\ r1.lineage_id = r2.lineage_id

\* C1: the length of `records` equals the number of completed after_run
\* calls; before_run calls (counted in ncalls only) add no record.
RecordCountIsAfterRunCount ==
    /\ Len(lists[LOG]) = Len(completed)
    /\ Len(lists[LOG]) <= ncalls

\* C1 witness: a record exists, and a before_run has no matching after_run.
BeforeWithoutAfterSeen ==
    /\ Len(Log) >= 1
    /\ ncalls > Len(completed)
    /\ \E c \in Contexts : HasStart(metadata[c])

\* C2: the i-th record of the log is the record of the i-th after_run call
\* to complete, whatever the order of the before_run calls.
RecordsInCompletionOrder ==
    /\ Len(Log) = Len(completed)
    /\ \A i \in 1..Len(completed) :
        /\ Log[i].agent_name = agent_name[completed[i]]
        /\ Log[i].method = method[completed[i]]

\* C2 witness: two contexts whose after_run calls completed in the opposite
\* order of their before_run calls (tokens are issued in increasing order).
CompletedInReverseOfStart ==
    \E i, j \in 1..Len(Log) :
        /\ i < j
        /\ completed[i] # completed[j]
        /\ Log[i].lineage_id # None
        /\ Log[j].lineage_id # None
        /\ Log[i].lineage_id[1] > Log[j].lineage_id[1]

\* C3 as stated: no two records of the log carry the same non-null
\* lineage_id.
LineageIdsUnique ==
    \A i, j \in 1..Len(Log) : i # j => ~SameId(Log[i], Log[j])

\* C3 amended: two records carry the same non-null lineage_id only when
\* both come from the same context and the later one was appended by an
\* after_run that found no start timestamp (a repeated after_run with no
\* before_run in between); its elapsed_ms is then absent.
LineageIdsUniquePerStartedRun ==
    \A i, j \in 1..Len(Log) :
        (i < j /\ SameId(Log[i], Log[j])) =>
            /\ Len(completed) = Len(Log)
            /\ completed[i] = completed[j]
            /\ Log[j].elapsed_ms = None

\* C3 witness: after_run ran twice on one context after a single before_run.
RepeatedAfterRunSeen ==
    \E i, j \in 1..Len(Log) : i < j /\ SameId(Log[i], Log[j])

\* C4: after_run returns the result it was given.
AfterRunReturnsResult == last.ret = last.result

\* C4 witness: after_run was given a non-None result on a context that never
\* received before_run, and the log already held a record.
ReturnedNonNoneResult ==
    /\ Len(completed) >= 2
    /\ last.result # "None"
    /\ LastRecord.lineage_id = None

\* C5: the record appended by after_run(context, result) has has_result true
\* iff result is not None; falsy non-null results give true.
HasResultIffNotNone ==
    [][completed' # completed =>
        /\ Len(Log') >= 1
        /\ (last'.result = "None") => (LastRecord'.has_result = FALSE)
        /\ (last'.result \in Results \ {"None"}) => (LastRecord'.has_result = TRUE)]_vars

\* C5 witness: after_run was given the falsy result 0 and recorded true.
FalsyResultRecorded ==
    /\ Len(completed) >= 1
    /\ Len(Log) >= 1
    /\ last.result = "0"
    /\ LastRecord.has_result = TRUE

\* C6: after_run on a context that never received before_run appends exactly
\* one record with elapsed_ms and lineage_id absent and agent_name, method and
\* has_result filled in, and returns the result.
AfterRunWithoutBeforeDegrades ==
    [][(completed' # completed /\ "lineage_id" \notin DOMAIN metadata[LastCtx']) =>
        /\ Len(Log') = Len(Log) + 1
        /\ SubSeq(Log', 1, Len(Log)) = Log
        /\ LastRecord'.elapsed_ms = None
        /\ LastRecord'.lineage_id = None
        /\ LastRecord'.agent_name = agent_name[LastCtx']
        /\ LastRecord'.method = method[LastCtx']
        /\ LastRecord'.has_result = (last'.result # "None")
        /\ last'.ret = last'.result]_vars

\* C6 witness: the latest after_run ran on a context without lineage keys.
DegradedRecordSeen ==
    /\ Len(completed) >= 1
    /\ Len(Log) >= 1
    /\ "lineage_id" \notin DOMAIN metadata[LastCtx]
    /\ LastRecord.elapsed_ms = None
    /\ LastRecord.lineage_id = None
    /\ LastRecord.has_result = TRUE

\* C7 as stated: the record has elapsed_ms present iff lineage_start_ns was
\* in the context's metadata when after_run was called, and then it equals
\* (now - start) / 1e6.
ElapsedPresentIffStartPresent ==
    [][completed' # completed =>
        /\ Len(Log') >= 1
        /\ (LastRecord'.elapsed_ms # None) <=> HasStart(metadata[LastCtx'])
        /\ HasStart(metadata[LastCtx']) =>
              LastRecord'.elapsed_ms =
                  Some([num |-> clock' - metadata[LastCtx'].lineage_start_ns,
                        den |-> NS_PER_MS])]_vars

\* C8: every record of the log with elapsed_ms present has elapsed_ms >= 0.
ElapsedNonNegative ==
    \A i \in 1..Len(Log) :
        Log[i].elapsed_ms # None => Log[i].elapsed_ms[1].num >= 0

\* C8 witness: two interleaved invocations, both timed, one of them with a
\* positive elapsed time.
PositiveElapsedSeen ==
    \E i, j \in 1..Len(Log) :
        /\ i # j
        /\ completed[i] # completed[j]
        /\ Log[i].elapsed_ms # None
        /\ Log[j].elapsed_ms # None
        /\ Log[i].elapsed_ms[1].num > 0

\* C9: after_run removes lineage_start_ns from the context's metadata, and
\* an after_run that finds none records elapsed_ms absent; so of the records
\* that carry one before_run's lineage_id at most the first is timed.
StartTimestampConsumedOnce ==
    [][/\ \A i, j \in 1..Len(Log') :
            (i < j /\ SameId(Log'[i], Log'[j])) => Log'[j].elapsed_ms = None
       /\ completed' # completed =>
            /\ ~HasStart(metadata'[LastCtx'])
            /\ ~HasStart(metadata[LastCtx']) => LastRecord'.elapsed_ms = None]_vars

\* C9 witness: a before_run followed by two after_run calls on the same
\* context; the first record is timed, the second is not.
StaleTimestampNotReused ==
    \E i, j \in 1..Len(Log) :
        /\ i < j
        /\ SameId(Log[i], Log[j])
        /\ completed[i] = completed[j]
        /\ Log[i].elapsed_ms # None
        /\ Log[j].elapsed_ms = None

\* C10: each read of `records` yields a new list equal to the log; editing a
\* returned list changes neither the log nor another returned list; a record
\* appended later does not appear in a list returned earlier.
RecordsIsIndependentSnapshot ==
    [][/\ \A s \in Slots :
            held'[s] # NoList =>
                /\ held'[s] # LOG
                /\ \A t \in Slots \ {s} : held'[t] # held'[s]
       /\ (readerOps' # readerOps /\ rop'.op = "read") =>
            /\ View(lists'[held'[rop'.slot]]) = Log
            /\ Log' = Log
            /\ \A t \in Slots \ {rop'.slot} :
                  held[t] # NoList => lists'[held[t]] = lists[held[t]]
       /\ (readerOps' # readerOps /\ rop'.op # "read") =>
            /\ Log' = Log
            /\ \A t \in Slots \ {rop'.slot} :
                  held[t] # NoList => lists'[held[t]] = lists[held[t]]
       /\ completed' # completed =>
            \A s \in Slots :
                held[s] # NoList => lists'[held[s]] = lists[held[s]]]_vars

\* C10 witness: a list returned before a record was appended and then edited
\* by the reader, next to a list returned afterwards that equals the log.
EditedAndFreshSnapshotsSeen ==
    /\ held[1] # NoList
    /\ held[2] # NoList
    /\ Len(Log) >= 1
    /\ View(lists[held[2]]) = Log
    /\ lists[held[1]] # lists[held[2]]
    /\ \E i \in 1..Len(lists[held[1]]) : lists[held[1]][i] = READER_REC

\* C11: no operation of a reader on a list returned by `records`, the
\* assignment of a field of a record taken from it included, changes the
\* content of the log.
ReaderNeverChangesLog ==
    [][readerOps' # readerOps => Log' = Log]_vars

\* C14: before_run(context) writes lineage_id (a token not issued before),
\* lineage_agent (the context's agent_name) and lineage_start_ns (the clock
\* reading) into the context's metadata and changes nothing else: not the
\* other keys, not the other contexts, not the log.
BeforeRunWritesThreeKeys ==
    [][(ncalls' # ncalls /\ completed' = completed) =>
        \E c \in Contexts :
            /\ \A d \in Contexts \ {c} : metadata'[d] = metadata[d]
            /\ DOMAIN metadata'[c] =
                   DOMAIN metadata[c] \cup {"lineage_id", "lineage_agent", "lineage_start_ns"}
            /\ \A k \in DOMAIN metadata[c] \ {"lineage_id", "lineage_agent", "lineage_start_ns"} :
                   metadata'[c][k] = metadata[c][k]
            /\ metadata'[c].lineage_id \in Tokens \ issued
            /\ \A d \in Contexts \ {c} :
                   "lineage_id" \in DOMAIN metadata[d] =>
                       metadata[d].lineage_id # metadata'[c].lineage_id
            /\ metadata'[c].lineage_agent = agent_name[c]
            /\ metadata'[c].lineage_start_ns = clock'
            /\ clock' >= clock
            /\ lists' = lists
            /\ dicts' = dicts
            /\ agent_name' = agent_name
            /\ method' = method
            /\ last' = last]_vars

\* C14 witness: before_run ran a second time on a context that already had
\* the keys and a caller key, next to a context it never ran on.
BeforeRunOverwroteKeys ==
    \E c, d \in Contexts :
        /\ c # d
        /\ DOMAIN metadata[c] = {"trace", "lineage_id", "lineage_agent", "lineage_start_ns"}
        /\ metadata[c].lineage_id = 2
        /\ metadata[c].trace = "t"
        /\ metadata[d] = CallerMetadata
        /\ Len(Log) = 0

\* C20: after after_run the context's metadata has no lineage_start_ns, and
\* every other key (lineage_id and lineage_agent among them) is left as it
\* was; the metadata of the other contexts is unchanged.
AfterRunRemovesOnlyStart ==
    [][completed' # completed =>
        /\ DOMAIN metadata'[LastCtx'] = DOMAIN metadata[LastCtx'] \ {"lineage_start_ns"}
        /\ \A k \in DOMAIN metadata'[LastCtx'] :
               metadata'[LastCtx'][k] = metadata[LastCtx'][k]
        /\ \A d \in Contexts \ {LastCtx'} : metadata'[d] = metadata[d]]_vars

\* C20 witness: after_run has completed on a context that before_run had
\* prepared: lineage_id and lineage_agent are still there, the start is not.
LineageKeysRemainAfterRun ==
    /\ Len(completed) >= 1
    /\ DOMAIN metadata[LastCtx] = {"trace", "lineage_id", "lineage_agent"}
    /\ metadata[LastCtx].lineage_agent = agent_name[LastCtx]
    /\ LastRecord.lineage_id = Some(metadata[LastCtx].lineage_id)

\* the keys of a complete record, and the prefix order on lists
RecordFields == {"lineage_id", "agent_name", "method", "elapsed_ms", "has_result"}
IsPrefix(a, b) == Len(a) <= Len(b) /\ \A i \in 1..Len(a) : a[i] = b[i]

\* C12: with after_run calls on distinct contexts in parallel, the log holds
\* one complete record per call that has appended (hence one per completed
\* call once all have returned), none of them twice, and for each context as
\* many records as calls completed on it.
NoRecordLostOrDuplicated ==
    /\ Len(lists[LOG]) = Len(completed) + Cardinality({c \in Contexts : pc[c] = "appended"})
    /\ \A i, j \in 1..Len(lists[LOG]) : i # j => lists[LOG][i] # lists[LOG][j]
    /\ \A i \in 1..Len(lists[LOG]) :
          /\ lists[LOG][i] \in 1..Len(dicts)
          /\ DOMAIN Log[i] = RecordFields
    /\ (\A c \in Contexts : pc[c] = "idle") =>
          \A c \in Contexts :
              Cardinality({i \in 1..Len(Log) : Log[i].agent_name = agent_name[c]})
                  = Cardinality({i \in 1..Len(completed) : completed[i] = c})

\* C12 witness: two calls overlapped (the one that appended first returned
\* last) and both have completed.
OverlappingCallsCompleted ==
    /\ \A c \in Contexts : pc[c] = "idle"
    /\ Len(completed) >= 2
    /\ Len(Log) >= 2
    /\ Log[1].agent_name # agent_name[completed[1]]

\* C13: every list returned by `records` is a prefix of the log from then
\* on, with its records unchanged (nothing is removed, reordered or
\* rewritten), an earlier one is a prefix of a later one, and each of its
\* records has all five fields.
ReadsSeeConsistentPrefix ==
    /\ \A s \in Slots :
          held[s] # NoList =>
              /\ IsPrefix(View(lists[held[s]]), Log)
              /\ \A i \in 1..Len(lists[held[s]]) :
                    DOMAIN View(lists[held[s]])[i] = RecordFields
    /\ \A s, t \in Slots :
          (held[s] # NoList /\ held[t] # NoList /\ s # t /\ rop.slot = t) =>
              IsPrefix(View(lists[held[s]]), View(lists[held[t]]))

\* C13 witness: a list read after the first append and one read after the
\* second, while the second call had not yet returned.
GrowingSnapshotsSeen ==
    /\ held[1] # NoList
    /\ held[2] # NoList
    /\ Len(lists[held[1]]) = 1
    /\ Len(lists[held[2]]) = 2
    /\ \E c \in Contexts : pc[c] = "appended"

\* C15: execute leaves the caller's inputs dict as it was given, and the
\* client receives parameters = inputs without the tenant_id key and
\* tenant_id = inputs["tenant_id"], None when the key is absent.
ExecuteKeepsInputs ==
    nexec >= 1 =>
        /\ objs[INPUTS] = estep.inputs
        /\ DOMAIN enrichCall.parameters = DOMAIN estep.inputs \ {"tenant_id"}
        /\ \A k \in DOMAIN enrichCall.parameters :
              enrichCall.parameters[k] = estep.inputs[k]
        /\ "tenant_id" \in DOMAIN estep.inputs =>
              enrichCall.tenant_id = Some(estep.inputs.tenant_id)
        /\ "tenant_id" \notin DOMAIN estep.inputs => enrichCall.tenant_id = None
        /\ enrichCall.type = estep.type
        /\ enrichCall.strategy = estep.strategy

\* C15 witness: execute was given inputs with a tenant_id and another key.
ExecutedWithTenantId ==
    /\ nexec >= 1
    /\ DOMAIN estep.inputs = {"country", "tenant_id"}
    /\ objs[INPUTS].tenant_id = "t1"
    /\ enrichCall.tenant_id = Some("t1")

\* the list under context.metadata["enrichment_results"], [] when absent
EnrichmentResults ==
    IF "enrichment_results" \in DOMAIN pmeta THEN pmeta.enrichment_results ELSE <<>>

\* C16: enrichment_results holds one entry {type, strategy, correlation_id}
\* per execute whose client.enrich call succeeded, in call order; an execute
\* whose client.enrich call raises adds none and raises.
EnrichmentResultsOnePerSuccess ==
    /\ Len(EnrichmentResults) = Len(eok)
    /\ Len(eok) <= nexec
    /\ ("enrichment_results" \in DOMAIN pmeta) <=> (Len(eok) >= 1)
    /\ \A i \in 1..Len(EnrichmentResults) :
          EnrichmentResults[i] = [type |-> eok[i].type, strategy |-> eok[i].strategy,
                                  correlation_id |-> CorrelationId]
    /\ (estep.outcome = "raised") <=> (nexec >= 1 /\ ~estep.enrich_ok)
    /\ (estep.outcome = "returned") => estep.ret = EnrichResponse

\* C16 witness: three executes, two of them successful and of different steps
\* and one failed.
TwoEntriesAroundFailure ==
    /\ nexec = 3
    /\ Len(EnrichmentResults) = 2
    /\ EnrichmentResults[1].type # EnrichmentResults[2].type
    /\ estep.outcome = "returned"

\* the positions of the rules that fail: falsy return value or exception
FailingRules == {i \in 1..Len(qstep.rules) : qstep.rules[i].outcome # "True"}

\* the position of the k-th failing rule
KthFailing(k) ==
    CHOOSE i \in FailingRules : Cardinality({j \in FailingRules : j <= i}) = k

\* C17: execute raises ValueError iff at least one rule returns a falsy value
\* or raises; every rule is evaluated, in order; the message carries the
\* number of violations and one violation per failing rule, in rule order.
QualityGateRaisesIffRuleFails ==
    nqexec >= 1 =>
        /\ (qstep.outcome = "ValueError") <=> (FailingRules # {})
        /\ (qstep.outcome = "returned") <=> (FailingRules = {})
        /\ qstep.evaluated = [i \in 1..Len(qstep.rules) |-> i]
        /\ qstep.outcome = "ValueError" =>
              /\ qstep.message.count = Cardinality(FailingRules)
              /\ Len(qstep.message.violations) = Cardinality(FailingRules)
              /\ \A k \in 1..Len(qstep.message.violations) :
                    LET rule == qstep.rules[KthFailing(k)]
                    IN  qstep.message.violations[k] =
                            IF rule.outcome = "raise"
                              THEN <<rule.description, ExcText>>
                              ELSE <<rule.description>>

\* C17 witness: a first rule that raises and a second one that returns False,
\* both listed.
TwoViolationsListed ==
    /\ nqexec >= 1
    /\ Len(qstep.rules) = 2
    /\ qstep.rules[1].outcome = "raise"
    /\ qstep.rules[2].outcome = "False"
    /\ qstep.outcome = "ValueError"
    /\ qstep.message.count = 2

\* C18: when every rule passes, or there is no rule, execute returns the
\* inputs object it was given, and that object has the keys and values it
\* was given.
AllPassReturnsSameInputs ==
    (nqexec >= 1 /\ \A i \in 1..Len(qstep.rules) : qstep.rules[i].outcome = "True") =>
        /\ qstep.outcome = "returned"
        /\ qstep.ret = INPUTS
        /\ objs[qstep.ret] = qstep.inputs

\* C18 witness: a step without rules returned non-empty inputs after a step
\* whose rules all passed.
EmptyRuleListReturnedInputs ==
    /\ nqexec = 2
    /\ qstep.rules = <<>>
    /\ qstep.outcome = "returned"
    /\ DOMAIN qstep.inputs = {"country"}
    /\ "quality_checks_passed" \in DOMAIN pmeta
    /\ pmeta.quality_checks_passed = 2

\* the client method and arguments kwargs ask for; None when a required
\* argument is missing or empty, or the action is not one of the three
ExpectedCall(kwargs) ==
    LET has(k) == k \in DOMAIN kwargs /\ kwargs[k] # ""
    IN  CASE kwargs["action"] = "start" /\ has("job_type") ->
               Some([method |-> "start_job",
                     args |-> [job_type |-> kwargs["job_type"],
                               parameters |-> IF "parameters" \in DOMAIN kwargs
                                                THEN kwargs["parameters"] ELSE EmptyDict]])
          [] kwargs["action"] = "check" /\ has("execution_id") ->
               Some([method |-> "check_job",
                     args |-> [execution_id |-> kwargs["execution_id"]]])
          [] kwargs["action"] = "collect" /\ has("execution_id") ->
               Some([method |-> "collect_results",
                     args |-> [execution_id |-> kwargs["execution_id"]]])
          [] OTHER -> None

\* C19: an execution with a known action and its required argument non-empty
\* calls the one client method of that action, once, and returns what it
\* returns (or lets its error through); every other execution raises
\* ValueError and calls no client method.
JobToolDispatches ==
    [][njexec' # njexec =>
        LET expected == ExpectedCall(jstep'.kwargs)
        IN  /\ IsPrefix(jcalls, jcalls')
            /\ expected = None =>
                  /\ jstep'.outcome = "ValueError"
                  /\ jcalls' = jcalls
            /\ expected # None =>
                  /\ jstep'.outcome \in {"returned", "ClientError"}
                  /\ jcalls' = Append(jcalls, expected[1])
            /\ jstep'.outcome = "ValueError" => jcalls' = jcalls
            /\ jstep'.outcome = "returned" =>
                  /\ Len(jcalls') = Len(jcalls) + 1
                  /\ jstep'.ret = JobResult(jcalls'[Len(jcalls')].method)]_vars

\* C19 witness: after a successful start, a start with an empty job_type
\* raised ValueError and the client saw only the first call.
EmptyJobTypeRejected ==
    /\ njexec = 2
    /\ jstep.kwargs["action"] = "start"
    /\ "job_type" \in DOMAIN jstep.kwargs
    /\ jstep.kwargs["job_type"] = ""
    /\ jstep.outcome = "ValueError"
    /\ Len(jcalls) = 1
    /\ jcalls[1].method = "start_job"

\* C21: with calls on distinct contexts interleaved, the record after_run(c)
\* builds and appends carries the lineage_id in c's metadata (written by the
\* latest before_run on c), the agent_name and method of c and an elapsed
\* time computed from c's own start timestamp, and nothing of another
\* context: not its agent name, nor its lineage_id.
RecordCarriesOwnContext ==
    [][\A c \in Contexts :
        /\ (pc[c] = "idle" /\ pc'[c] = "built") =>
              LET r == dicts'[Len(dicts')]
              IN  /\ Len(dicts') = Len(dicts) + 1
                  /\ r.lineage_id = DictGet(metadata[c], "lineage_id")
                  /\ r.agent_name = agent_name[c]
                  /\ r.method = method[c]
                  /\ r.elapsed_ms = Elapsed(DictGet(metadata[c], "lineage_start_ns"), clock')
                  /\ \A d \in Contexts \ {c} : metadata'[d] = metadata[d]
        /\ (pc[c] = "built" /\ pc'[c] = "appended") =>
              LET r == Log'[Len(Log')]
              IN  /\ Len(Log') = Len(Log) + 1
                  /\ r.lineage_id = DictGet(metadata[c], "lineage_id")
                  /\ r.agent_name = agent_name[c]
                  /\ r.method = method[c]
                  /\ \A d \in Contexts \ {c} :
                        /\ r.agent_name # agent_name[d]
                        /\ r.lineage_id # None =>
                              r.lineage_id # DictGet(metadata[d], "lineage_id")
    ]_vars

\* C21 witness: both contexts were started by before_run; the second one
\* has appended its record while the first one's after_run, begun earlier,
\* still holds its record unappended.
InterleavedPairsAppended ==
    /\ pc[1] = "built"
    /\ pc[2] = "appended"
    /\ "lineage_id" \in DOMAIN metadata[1]
    /\ "lineage_id" \in DOMAIN metadata[2]
    /\ frame[1].ref < frame[2].ref
    /\ Len(Log) >= 1
    /\ Log[Len(Log)].agent_name = agent_name[2]
    /\ Log[Len(Log)].lineage_id = Some(metadata[2]["lineage_id"])

\* the sum of the rule counts of the passing executions among the first n,
\* and the violations of the failing ones among the first n, concatenated
RECURSIVE RulesPassed(_)
RulesPassed(n) ==
    IF n = 0 THEN 0
    ELSE RulesPassed(n - 1) + (IF qhist[n].outcome = "returned" THEN qhist[n].nrules ELSE 0)
RECURSIVE ViolationsSoFar(_)
ViolationsSoFar(n) ==
    IF n = 0 THEN <<>>
    ELSE ViolationsSoFar(n - 1)
            \o (IF qhist[n].outcome = "ValueError" THEN qhist[n].violations ELSE <<>>)

\* C22: metadata["quality_checks_passed"] exists once an execution has
\* passed and is then the sum of the rule counts of the passing executions;
\* metadata["quality_violations"] exists once an execution has failed and is
\* then the violations of the failing executions, concatenated in order.
\* Hence a failing execution neither creates nor changes the first, and a
\* passing one neither creates nor changes the second.
QualityMetadataAccumulates ==
    /\ Len(qhist) = nqexec
    /\ ("quality_checks_passed" \in DOMAIN pmeta)
          <=> (\E i \in 1..Len(qhist) : qhist[i].outcome = "returned")
    /\ "quality_checks_passed" \in DOMAIN pmeta =>
          pmeta["quality_checks_passed"] = RulesPassed(Len(qhist))
    /\ ("quality_violations" \in DOMAIN pmeta)
          <=> (\E i \in 1..Len(qhist) : qhist[i].outcome = "ValueError")
    /\ "quality_violations" \in DOMAIN pmeta =>
          pmeta["quality_violations"] = ViolationsSoFar(Len(qhist))
    /\ \A i \in 1..Len(qhist) :
          (qhist[i].outcome = "ValueError") <=> (qhist[i].violations # <<>>)

\* C22 witness: a passing execution with two rules after a failing one with
\* two violations; both keys are present.
PassAfterFailRecorded ==
    /\ Len(qhist) = 2
    /\ qhist[1].outcome = "ValueError"
    /\ Len(qhist[1].violations) = 2
    /\ qhist[2].outcome = "returned"
    /\ qhist[2].nrules = 2
    /\ pmeta["quality_checks_passed"] = 2
    /\ Len(pmeta["quality_violations"]) = 2

\* C23: at most one httpx client is open at a time, and it is the one held
\* in _client: a client that close() has dropped is closed.
OnlyHeldClientOpen ==
    /\ Cardinality(opened) <= 1
    /\ opened \subseteq {client}

\* at most one client is open and it is the one held; a request is sent on
\* an open client; with no call under way a client held is open (close()
\* has closed and dropped it, a request after close() works on a new one)
AtMostOneClientHeld ==
    /\ OnlyHeldClientOpen
    /\ sent.on # NoClient => sent.open
    /\ (NoCallUnderWay /\ client # NoClient) => client \in opened

\* For calls made one after the other: a request creates a client only
\* when none is held and otherwise works on the one held; a close() leaves
\* no client held and none open, and changes nothing when none is held.
SequentialClientLifecycle ==
    [][/\ AtMostOneClientHeld'
       /\ nclientops' # nclientops =>
             \/ /\ \E t \in Tasks : tpc'[t] = "requesting"
                /\ client' \in opened'
                /\ sent'.on = client'
                /\ client # NoClient => (client' = client /\ created' = created)
                /\ client = NoClient => (created' = created + 1 /\ client' \notin 1..created)
             \/ /\ \E t \in Tasks : tpc'[t] = "closing"
                /\ opened' = {}
             \/ /\ NoCallUnderWay'
                /\ client = NoClient
                /\ <<client, opened, created>>' = <<client, opened, created>>
       /\ (\E t \in Tasks : tpc[t] = "closing" /\ tpc'[t] = "idle") =>
             (client' = NoClient /\ opened' = {})
    ]_vars

\* a request after a close() worked on a second client, the first one closed
FreshClientAfterClose ==
    /\ created = 2
    /\ client = 2
    /\ opened = {2}
    /\ sent.on = 2

====
